---- MODULE Spec2Model ----
(***************************************************************************)
(* Model of the Prime EFR web application (prime-efr-web): the server's    *)
(* enrollment processor, validation service and configuration routes, and  *)
(* the client's configuration store.                                       *)
(*                                                                         *)
(* Text that the code inspects character by character (client ids, plan    *)
(* codes, coverage codes, tier labels) is a sequence of one-character      *)
(* strings, so that trimming, upper-casing, substring search and pattern   *)
(* tests are computed as the code computes them.  Names that are only      *)
(* compared for equality (tab names, plan types, issue categories) are     *)
(* plain strings.                                                          *)
(***************************************************************************)
EXTENDS Integers, Sequences, FiniteSets, TLC

VARIABLES
    data,          \* EnrollmentData[] handed to the server
    config,        \* ProcessConfig handed to the server
    reqTabData,    \* tabData in the body of a POST /validation/validate
    ret,           \* the last call made on the server: its name and what it returned
    storedConfig,  \* the server's config files (config/*.json), by file name
    tabConfigs,    \* the client's configSlice state.tabConfigs
    validation,    \* the client's validationSlice state
    enrollment,    \* the client's enrollmentSlice state
    requests,      \* the requests in flight, each with the position of its handler
    uploadsDir     \* the files in the server's uploads directory

vars == <<data, config, reqTabData, ret, storedConfig, tabConfigs,
          validation, enrollment, requests, uploadsDir>>

(***************************************************************************)
(* Bounds of the model.                                                    *)
(***************************************************************************)
MaxRecords == 2
MaxTabs == 2
MaxTabConfigs == 2

(***************************************************************************)
(* Text.                                                                   *)
(***************************************************************************)
EE == <<"E", "E">>
EE_Spouse == <<"E", "E", " ", "&", " ", "S", "p", "o", "u", "s", "e">>
EE_Children == <<"E", "E", " ", "&", " ", "C", "h", "i", "l", "d", "r", "e", "n">>
EE_Family == <<"E", "E", " ", "&", " ", "F", "a", "m", "i", "l", "y">>
EE_Child == <<"E", "E", " ", "&", " ", "C", "h", "i", "l", "d">>
EMP == <<"E", "M", "P">>
ESP == <<"E", "S", "P">>
ECH == <<"E", "C", "H">>
FAM == <<"F", "A", "M">>
H3170 == <<"H", "3", "1", "7", "0">>
H3130 == <<"H", "3", "1", "3", "0">>
H3100 == <<"H", "3", "1", "0", "0">>
H3270 == <<"H", "3", "2", "7", "0">>
H3250 == <<"H", "3", "2", "5", "0">>
H3260 == <<"H", "3", "2", "6", "0">>
H3310 == <<"H", "3", "3", "1", "0">>
H3397 == <<"H", "3", "3", "9", "7">>
\* client ids as a source file may carry them, before normalizeClientId
h3170 == <<"h", "3", "1", "7", "0">>
h3310 == <<"h", "3", "3", "1", "0">>

Lower == <<"a", "b", "c", "d", "e", "f", "g", "h", "i", "j", "k", "l", "m",
           "n", "o", "p", "q", "r", "s", "t", "u", "v", "w", "x", "y", "z">>
Upper == <<"A", "B", "C", "D", "E", "F", "G", "H", "I", "J", "K", "L", "M",
           "N", "O", "P", "Q", "R", "S", "T", "U", "V", "W", "X", "Y", "Z">>
Digits == <<"0", "1", "2", "3", "4", "5", "6", "7", "8", "9">>

IsSpace(c) == c = " "
IsDigit(c) == \E i \in 1..Len(Digits) : Digits[i] = c
DigitValue(c) == (CHOOSE i \in 1..Len(Digits) : Digits[i] = c) - 1

\* String.prototype.toUpperCase, character by character
UpperChar(c) ==
    IF \E i \in 1..Len(Lower) : Lower[i] = c
    THEN Upper[CHOOSE i \in 1..Len(Lower) : Lower[i] = c]
    ELSE c
toUpperCase(s) == [i \in 1..Len(s) |-> UpperChar(s[i])]

\* String.prototype.trim
RECURSIVE trimStart(_)
trimStart(s) == IF s # <<>> /\ IsSpace(Head(s)) THEN trimStart(Tail(s)) ELSE s
RECURSIVE trimEnd(_)
trimEnd(s) ==
    IF s # <<>> /\ IsSpace(s[Len(s)]) THEN trimEnd(SubSeq(s, 1, Len(s) - 1)) ELSE s
trim(s) == trimEnd(trimStart(s))

\* String.prototype.includes
includes(s, sub) ==
    \E i \in 1..(Len(s) - Len(sub) + 1) : SubSeq(s, i, i + Len(sub) - 1) = sub

\* Array.prototype.includes on an array of values
arrayIncludes(arr, x) == \E i \in 1..Len(arr) : arr[i] = x

Range(seq) == {seq[i] : i \in 1..Len(seq)}

(***************************************************************************)
(* JavaScript values of a record's count field.  The inputs of the model   *)
(* are records whose fields are texts and whose count, when present, is a  *)
(* number or a text of digits, commas and blanks.                          *)
(***************************************************************************)
Null == [t |-> "null"]
Num(n) == [t |-> "number", v |-> n]
Str(s) == [t |-> "string", v |-> s]

(***************************************************************************)
(* dataUtils: normalizeClientId, normalizeTier, getPlanType,               *)
(* calculateTierTotals.                                                    *)
(***************************************************************************)
normalizeClientId(clientId) == toUpperCase(trim(clientId))

tierMap == (EMP :> EE) @@ (ESP :> EE_Spouse) @@ (ECH :> EE_Children) @@ (FAM :> EE_Family)

\* tierMap[benCode] || benCode
normalizeTier(benCode) ==
    IF benCode \in DOMAIN tierMap THEN tierMap[benCode] ELSE benCode

\* planMappings[planCode] is truthy: the code is a key and its type is not ''
HasMapping(planMappings, planCode) ==
    planCode \in DOMAIN planMappings /\ planMappings[planCode] # ""

getPlanType(planCode, planMappings) ==
    IF HasMapping(planMappings, planCode) THEN planMappings[planCode]
    ELSE IF includes(planCode, <<"V", "A", "L">>)
            \/ includes(planCode, <<"V", "A", "L", "U", "E">>) THEN "VALUE"
    ELSE IF includes(planCode, <<"E", "P", "O">>) THEN "EPO"
    ELSE IF includes(planCode, <<"P", "P", "O">>) THEN "PPO"
    ELSE "UNKNOWN"

createEmptyTotals == (EE :> 0) @@ (EE_Spouse :> 0) @@ (EE_Children :> 0) @@ (EE_Family :> 0)

RECURSIVE calculateTierTotalsFrom(_, _)
calculateTierTotalsFrom(records, totals) ==
    IF records = <<>> THEN totals
    ELSE LET tier == normalizeTier(Head(records).BEN_CODE)
         IN  calculateTierTotalsFrom(Tail(records),
                 IF tier \in DOMAIN totals
                 THEN [totals EXCEPT ![tier] = @ + 1]
                 ELSE totals)

calculateTierTotals(records) == calculateTierTotalsFrom(records, createEmptyTotals)

\* mutant: the dependent count is not read
childCountFixed(record) == 2

\* record.dependentCount || 2, for a count that is absent or a number
childCount(record) ==
    IF "dependentCount" \in DOMAIN record /\ record.dependentCount # 0
    THEN record.dependentCount
    ELSE 2

splitChildTier(records, is5Tier) ==
    IF ~is5Tier THEN records
    ELSE [i \in 1..Len(records) |->
             IF records[i].tier = EE_Children
             THEN [records[i] EXCEPT
                      !.tier = IF childCount(records[i]) = 1 THEN EE_Child
                               ELSE EE_Children]
             ELSE records[i]]

\* what splitChildTier writes to the console or reports as an issue: it has
\* no such statement
splitChildTierLog(records, is5Tier) == <<>>

(***************************************************************************)
(* enrollmentProcessor: parseCountValue, getRecordCount,                   *)
(* getTabForClientId, processEnrollmentData.                               *)
(***************************************************************************)
numericFieldCandidates ==
    <<"count", "COUNT", "Count", "VALUE", "Value", "value", "TOTAL", "Total", "total">>

\* value.replace(/,/g, '')
RECURSIVE removeCommas(_)
removeCommas(s) ==
    IF s = <<>> THEN <<>>
    ELSE IF Head(s) = "," THEN removeCommas(Tail(s))
    ELSE <<Head(s)>> \o removeCommas(Tail(s))

\* Number(text) for a non-empty text: the decimal value of a digit string,
\* NaN (here Null) for a text with any other character.
RECURSIVE decimalValue(_)
decimalValue(s) ==
    IF s = <<>> THEN 0
    ELSE 10 * decimalValue(SubSeq(s, 1, Len(s) - 1)) + DigitValue(s[Len(s)])
toNumber(s) ==
    IF \A i \in 1..Len(s) : IsDigit(s[i]) THEN Num(decimalValue(s)) ELSE Null

parseCountValue(value) ==
    IF value.t = "undefined" \/ value.t = "null" THEN Null
    ELSE IF value.t = "string" /\ value.v = <<>> THEN Null
    ELSE IF value.t = "number" THEN value
    ELSE IF value.t = "string"
         THEN LET normalized == trim(removeCommas(value.v))
              IN  IF normalized = <<>> THEN Null ELSE toNumber(normalized)
    ELSE Null

RECURSIVE firstParsed(_, _)
firstParsed(record, fields) ==
    IF fields = <<>> THEN Null
    ELSE IF Head(fields) \in DOMAIN record
            /\ parseCountValue(record[Head(fields)]) # Null
         THEN parseCountValue(record[Head(fields)])
    ELSE firstParsed(record, Tail(fields))

getRecordCount(record) ==
    IF "count" \in DOMAIN record /\ parseCountValue(record.count) # Null
    THEN parseCountValue(record.count)
    ELSE firstParsed(record, numericFieldCandidates)

NullTab == "<null>"

cidToTabMap ==
    (H3170 :> "Legacy") @@ (H3130 :> "Legacy") @@ (H3100 :> "Legacy")
    @@ (H3270 :> "Centinela")
    @@ (H3250 :> "Encino-Garden Grove") @@ (H3260 :> "Encino-Garden Grove")

\* mutant: a client missing from the table gets a tab of its own
getTabForClientIdUnlisted(clientId) ==
    IF clientId \in DOMAIN cidToTabMap THEN cidToTabMap[clientId] ELSE "Unlisted"

getTabForClientId(clientId) ==
    IF clientId \in DOMAIN cidToTabMap THEN cidToTabMap[clientId] ELSE NullTab

\* mutant: every record is written to the tab created first
tabIndexFirst(tabs, name) == 1

\* tabDataMap is a Map: its entries keep their insertion order
tabIndex(tabs, name) == CHOOSE i \in 1..Len(tabs) : tabs[i].name = name
hasTab(tabs, name) == \E i \in 1..Len(tabs) : tabs[i].name = name

newTab(tab) ==
    [name |-> tab, client_ids |-> <<>>, blocks |-> <<>>,
     totals |-> createEmptyTotals, hasDiscrepancies |-> FALSE]

\* mutant: the allowlist test is left out
tabRejectedWithoutAllowlist(tab, cfg) == tab = NullTab

\* !tab || !config.allowedTabs.includes(tab)
tabRejected(tab, cfg) == tab = NullTab \/ tab \notin cfg.allowedTabs

\* lines 359-379: the record reaches its tab
updateTab(acc, tab, clientId, tier, units) ==
    LET tabs0 == IF hasTab(acc.tabs, tab) THEN acc.tabs
                 ELSE Append(acc.tabs, newTab(tab))
        i == tabIndex(tabs0, tab)
        t0 == tabs0[i]
        t1 == IF arrayIncludes(t0.client_ids, clientId) THEN t0
              ELSE [t0 EXCEPT !.client_ids = Append(@, clientId)]
        t2 == IF tier \in DOMAIN t1.totals
              THEN [t1 EXCEPT !.totals[tier] = @ + units]
              ELSE t1
    IN  [acc EXCEPT !.tabs = [tabs0 EXCEPT ![i] = t2],
                    !.processedCount = @ + units]

\* count !== null ? count : 1
recordUnits(record) ==
    LET count == getRecordCount(record)
    IN  IF count # Null THEN count.v ELSE 1

\* one iteration of the loop of processEnrollmentData
processRecord(acc, record, cfg) ==
    IF record.CLIENT_ID \in cfg.excludedClientIds
    THEN [acc EXCEPT !.skippedCount = @ + 1]
    ELSE LET clientId == normalizeClientId(record.CLIENT_ID)
             tier == normalizeTier(record.BEN_CODE)
             planType == getPlanType(record.PLAN, cfg.planMappings)
             units == recordUnits(record)
         IN  IF planType = "UNKNOWN"
             THEN [acc EXCEPT !.skippedCount = @ + 1]
             ELSE LET acc1 == IF tier \in DOMAIN acc.controlTotals
                              THEN [acc EXCEPT !.controlTotals[tier] = @ + units]
                              ELSE acc
                      tab == getTabForClientId(clientId)
                  IN  IF tabRejected(tab, cfg)
                      THEN [acc1 EXCEPT !.skippedCount = @ + 1]
                      ELSE updateTab(acc1, tab, clientId, tier, units)

RECURSIVE processLoop(_, _, _)
processLoop(acc, records, cfg) ==
    IF records = <<>> THEN acc
    ELSE processLoop(processRecord(acc, Head(records), cfg), Tail(records), cfg)

processEnrollmentData(records, cfg) ==
    LET acc == processLoop([controlTotals |-> createEmptyTotals, tabs |-> <<>>,
                            processedCount |-> 0, skippedCount |-> 0],
                           records, cfg)
    IN  [summary |-> [totalRecords |-> Len(records),
                      processedRecords |-> acc.processedCount,
                      skippedRecords |-> acc.skippedCount],
         tabData |-> acc.tabs,
         controlTotals |-> acc.controlTotals]

(***************************************************************************)
(* enrollmentValidator: validateEnrollmentData.  An issue text is modelled *)
(* by its kind and the values interpolated into it.                        *)
(***************************************************************************)
requiredFields == <<"CLIENT_ID", "PLAN", "BEN_CODE">>
validBenCodes == {EMP, ESP, ECH, FAM}

\* /^H\d+$/.test(clientId)
clientIdWellFormed(clientId) ==
    /\ Len(clientId) >= 2
    /\ clientId[1] = "H"
    /\ \A i \in 2..Len(clientId) : IsDigit(clientId[i])

\* the values a forEach adds to a Set, in insertion order
RECURSIVE distinctInOrder(_, _)
distinctInOrder(seq, seen) ==
    IF seq = <<>> THEN seen
    ELSE distinctInOrder(Tail(seq),
             IF arrayIncludes(seen, Head(seq)) THEN seen ELSE Append(seen, Head(seq)))

\* the data of a request body: an array of records or another JSON value
Arr(records) == [t |-> "array", v |-> records]
NotArray == [t |-> "object"]

\* mutant: a required field only has to be present, be it the empty string
fieldAbsent(record, field) == field \notin DOMAIN record

\* !record[field]
fieldMissing(record, field) == field \notin DOMAIN record \/ record[field] = <<>>

validateEnrollmentData(value) ==
    IF value.t # "array"
    THEN [isValid |-> FALSE, issues |-> <<[kind |-> "not_array", values |-> <<>>]>>]
    ELSE LET records == value.v IN
    IF records = <<>>
    THEN [isValid |-> FALSE, issues |-> <<[kind |-> "empty", values |-> <<>>]>>]
    ELSE LET missingFields ==
                 SelectSeq(requiredFields,
                     LAMBDA f : \E i \in 1..Len(records) : fieldMissing(records[i], f))
             benCodes == [i \in 1..Len(records) |->
                             IF "BEN_CODE" \in DOMAIN records[i]
                             THEN records[i].BEN_CODE ELSE <<>>]
             invalidBenCodes ==
                 distinctInOrder(
                     SelectSeq(benCodes, LAMBDA b : b # <<>> /\ b \notin validBenCodes),
                     <<>>)
             clientIds == [i \in 1..Len(records) |->
                              IF "CLIENT_ID" \in DOMAIN records[i]
                              THEN records[i].CLIENT_ID ELSE <<>>]
             invalidClientIds ==
                 distinctInOrder(
                     SelectSeq(clientIds, LAMBDA c : c # <<>> /\ ~clientIdWellFormed(c)),
                     <<>>)
             issues ==
                 (IF missingFields # <<>>
                  THEN <<[kind |-> "missing_fields", values |-> missingFields]>>
                  ELSE <<>>)
                 \o (IF invalidBenCodes # <<>>
                     THEN <<[kind |-> "invalid_ben_code", values |-> invalidBenCodes]>>
                     ELSE <<>>)
                 \o (IF invalidClientIds # <<>> /\ Len(invalidClientIds) <= 5
                     THEN <<[kind |-> "invalid_client_id", values |-> invalidClientIds]>>
                     ELSE IF Len(invalidClientIds) > 5
                     THEN <<[kind |-> "invalid_client_id_count",
                             values |-> <<Len(invalidClientIds)>>]>>
                     ELSE <<>>)
         IN  [isValid |-> issues = <<>>, issues |-> issues]

(***************************************************************************)
(* validationService: runValidation.                                       *)
(***************************************************************************)
ExpectedEE == 14533
ExpectedSpouse == 2639
ExpectedChildren == 4413
ExpectedFamily == 3123

expectedTiers == <<EE, EE_Spouse, EE_Children, EE_Family>>
expectedTotals ==
    (EE :> ExpectedEE) @@ (EE_Spouse :> ExpectedSpouse)
    @@ (EE_Children :> ExpectedChildren) @@ (EE_Family :> ExpectedFamily)

\* lines 34-50: one missing_mapping error per distinct unmapped plan code
unmappedPlans(sourceData, cfg) ==
    distinctInOrder(
        SelectSeq([i \in 1..Len(sourceData) |-> sourceData[i].PLAN],
                  LAMBDA plan : ~HasMapping(cfg.planMappings, plan)),
        <<>>)

missingMappingIssues(sourceData, cfg) ==
    LET plans == unmappedPlans(sourceData, cfg)
    IN  [i \in 1..Len(plans) |->
            [type |-> "error", category |-> "missing_mapping", plan |-> plans[i],
             message |-> <<"has no mapping", plans[i]>>]]

\* lines 60-71: actualTotals[tier] = (actualTotals[tier] || 0) + count
addTotals(actual, totals) ==
    [tier \in DOMAIN actual \cup DOMAIN totals |->
        (IF tier \in DOMAIN actual THEN actual[tier] ELSE 0)
        + (IF tier \in DOMAIN totals THEN totals[tier] ELSE 0)]

RECURSIVE sumTabTotals(_, _)
sumTabTotals(tabs, actual) ==
    IF tabs = <<>> THEN actual
    ELSE sumTabTotals(Tail(tabs),
             IF "totals" \in DOMAIN Head(tabs)
             THEN addTotals(actual, Head(tabs).totals)
             ELSE actual)

actualTotals(tabs) == sumTabTotals(tabs, createEmptyTotals)

\* mutant: only a shortfall is reported
tierMismatchBelow(actual, expected) == actual < expected

\* lines 73-84: one total_mismatch error per tier whose sum is not the expected one
tierMismatch(actual, expected) == actual # expected

totalMismatchIssues(tabs) ==
    LET actual == actualTotals(tabs)
        off == SelectSeq(expectedTiers,
                   LAMBDA tier : tierMismatch(actual[tier], expectedTotals[tier]))
    IN  [i \in 1..Len(off) |->
            [type |-> "error", category |-> "total_mismatch",
             message |-> <<"total mismatch", off[i], expectedTotals[off[i]], actual[off[i]]>>,
             details |-> [tier |-> off[i],
                          expected |-> expectedTotals[off[i]],
                          actual |-> actual[off[i]],
                          difference |-> actual[off[i]] - expectedTotals[off[i]]]]]

\* lines 87-106: one unassigned_plan warning per distinct unassigned client id
clientHasTab(tabs, clientId) ==
    \E i \in 1..Len(tabs) :
        "client_ids" \in DOMAIN tabs[i] /\ arrayIncludes(tabs[i].client_ids, clientId)

unassignedClients(sourceData, tabs, cfg) ==
    distinctInOrder(
        SelectSeq([i \in 1..Len(sourceData) |-> sourceData[i].CLIENT_ID],
                  LAMBDA c : ~clientHasTab(tabs, c) /\ c \notin cfg.excludedClientIds),
        <<>>)

unassignedIssues(sourceData, tabs, cfg) ==
    LET clients == unassignedClients(sourceData, tabs, cfg)
    IN  [i \in 1..Len(clients) |->
            [type |-> "warning", category |-> "unassigned_plan", client_id |-> clients[i],
             message |-> <<"is not assigned to any tab", clients[i]>>]]

\* lines 109-123: one multi_block info per tab whose blocks carry several plan types
planTypesOf(tab) == {tab.blocks[i].plan_type : i \in 1..Len(tab.blocks)}

hasMultipleBlockTypes(tab) ==
    /\ "blocks" \in DOMAIN tab
    /\ Len(tab.blocks) > 1
    /\ Cardinality(planTypesOf(tab)) > 1

multiBlockIssues(tabs) ==
    LET multi == SelectSeq(tabs, hasMultipleBlockTypes)
    IN  [i \in 1..Len(multi) |->
            [type |-> "info", category |-> "multi_block", tab |-> multi[i].name,
             message |-> <<"has multiple block types", multi[i].name>>,
             details |-> [blockCount |-> Len(multi[i].blocks),
                          planTypes |-> planTypesOf(multi[i])]]]

\* id: `issue-${issueIdCounter++}`
withIds(issues) ==
    [i \in 1..Len(issues) |-> [id |-> <<"issue-", i>>] @@ issues[i]]

summaryOf(issues) ==
    [totalIssues |-> Len(issues),
     errors |-> Len(SelectSeq(issues, LAMBDA i : i.type = "error")),
     warnings |-> Len(SelectSeq(issues, LAMBDA i : i.type = "warning")),
     info |-> Len(SelectSeq(issues, LAMBDA i : i.type = "info")),
     byCategory |-> [c \in {issues[i].category : i \in 1..Len(issues)} |->
                        Len(SelectSeq(issues, LAMBDA i : i.category = c))],
     byTab |-> [t \in {issues[i].tab : i \in {j \in 1..Len(issues) :
                                                 "tab" \in DOMAIN issues[j]}} |->
                   Len(SelectSeq(issues, LAMBDA i : "tab" \in DOMAIN i /\ i.tab = t))]]

runValidation(sourceData, tabs, cfg) ==
    LET issues == withIds(missingMappingIssues(sourceData, cfg)
                          \o totalMismatchIssues(tabs)
                          \o unassignedIssues(sourceData, tabs, cfg)
                          \o multiBlockIssues(tabs))
    IN  [issues |-> issues, summary |-> summaryOf(issues)]

(***************************************************************************)
(* routes/enrollment: POST /process.                                       *)
(***************************************************************************)
postProcess(body) ==
    LET check == validateEnrollmentData(body.data)
    IN  IF ~check.isValid
        THEN [status |-> 400, error |-> "Invalid enrollment data", issues |-> check.issues]
        ELSE LET res == processEnrollmentData(body.data.v, body.config)
             IN  [status |-> 200, success |-> TRUE, summary |-> res.summary,
                  tabData |-> res.tabData, controlTotals |-> res.controlTotals]

(***************************************************************************)
(* routes/config: POST /import with loadJsonFile / saveJsonFile, and the   *)
(* client's configSlice reducers setTabConfigs and updateTabConfig.        *)
(***************************************************************************)
\* saveJsonFile(filename, data): the file now holds data
saveJsonFile(files, filename, content) ==
    [f \in DOMAIN files \cup {filename} |->
        IF f = filename THEN content ELSE files[f]]

importFields ==
    <<[field |-> "planMappings", file |-> "plan_mappings.json"],
      [field |-> "blockAggregations", file |-> "block_aggregations.json"],
      [field |-> "tabConfigs", file |-> "tab_configs.json"]>>

\* a body field that is truthy is saved under its file name, the others are
\* skipped; a save that throws (failAt) ends the request with status 500 and
\* leaves the files saved before it in place
RECURSIVE importFrom(_, _, _, _)
importFrom(files, body, fields, failAt) ==
    IF fields = <<>> THEN [files |-> files, status |-> 200]
    ELSE IF Head(fields).field \notin DOMAIN body
    THEN importFrom(files, body, Tail(fields), failAt)
    ELSE IF failAt = Head(fields).field THEN [files |-> files, status |-> 500]
    ELSE importFrom(saveJsonFile(files, Head(fields).file, body[Head(fields).field]),
                    body, Tail(fields), failAt)

importConfig(files, body, failAt) == importFrom(files, body, importFields, failAt)

setTabConfigs(state, payload) == payload

updateTabConfig(state, payload) ==
    IF \E i \in 1..Len(state) : state[i].name = payload.name
    THEN LET index == CHOOSE i \in 1..Len(state) :
                          /\ state[i].name = payload.name
                          /\ \A j \in 1..(i - 1) : state[j].name # payload.name
         IN  [state EXCEPT ![index] = payload]
    ELSE Append(state, payload)

(***************************************************************************)
(* The client's store when the page has loaded: validationSlice and        *)
(* enrollmentSlice initialState.  A null uploadedFile or error is NoFile   *)
(* or NoError.                                                             *)
(***************************************************************************)
NoFile == "<null>"
NoError == "<null>"

validationInitial ==
    [issues |-> <<>>, summary |-> Null, selectedIssue |-> Null,
     filters |-> [type |-> <<>>, category |-> <<>>, tab |-> <<>>]]

enrollmentInitial ==
    [sourceData |-> <<>>, tabData |-> <<>>,
     controlTotals |-> (EE :> 0) @@ (EE_Spouse :> 0) @@ (EE_Children :> 0) @@ (EE_Family :> 0),
     uploadedFile |-> NoFile, loading |-> FALSE, error |-> NoError]

(***************************************************************************)
(* enrollmentSlice: normalizeTierLabel, normalizeCount and the reducers    *)
(* of the client's enrollment state.  An undefined or empty text is <<>>:  *)
(* the code tests both with if (rawTier), if (benCode), record.tier && ... *)
(***************************************************************************)
E1D == <<"E", "1", "D">>

normalizeTierLabel(rawTier, benCode) ==
    LET BEN_CODE_TO_TIER ==
            (EMP :> EE) @@ (ESP :> EE_Spouse) @@ (ECH :> EE_Children)
                @@ (FAM :> EE_Family) @@ (E1D :> EE_Children)
        TIER_LABEL_NORMALIZERS ==
            (<<"E", "E">> :> EE)
                @@ (<<"E", "E", " ", "O", "N", "L", "Y">> :> EE)
                @@ (<<"E", "E", " ", "O", "N", "L", "Y", " ">> :> EE)
                @@ (<<"E", "E", " ", "&", " ", "S", "P", "O", "U", "S", "E">> :> EE_Spouse)
                @@ (<<"E", "E", "+", "S", "P", "O", "U", "S", "E">> :> EE_Spouse)
                @@ (<<"E", "E", " ", "S", "P", "O", "U", "S", "E">> :> EE_Spouse)
                @@ (<<"E", "E", " ", "&", " ", "C", "H", "I", "L", "D", "R", "E", "N">> :> EE_Children)
                @@ (<<"E", "E", "+", "C", "H", "I", "L", "D", "(", "R", "E", "N", ")">> :> EE_Children)
                @@ (<<"E", "E", " ", "C", "H", "I", "L", "D", "R", "E", "N">> :> EE_Children)
                @@ (<<"E", "E", " ", "&", " ", "F", "A", "M", "I", "L", "Y">> :> EE_Family)
                @@ (<<"E", "E", "+", "F", "A", "M", "I", "L", "Y">> :> EE_Family)
        VALID_TIER_KEYS == {EE, EE_Spouse, EE_Children, EE_Family}
        normalized == toUpperCase(trim(rawTier))
        code == toUpperCase(trim(benCode))
    IN  IF rawTier # <<>> /\ normalized \in DOMAIN TIER_LABEL_NORMALIZERS
        THEN TIER_LABEL_NORMALIZERS[normalized]
        ELSE IF rawTier # <<>> /\ rawTier \in VALID_TIER_KEYS THEN rawTier
        ELSE IF benCode # <<>> /\ code \in DOMAIN BEN_CODE_TO_TIER
             THEN BEN_CODE_TO_TIER[code]
        ELSE <<>>

\* parseNumeric of the slice is, line for line, parseCountValue of the server
normalizeCount(record) ==
    LET NUMERIC_FIELD_FALLBACKS ==
            <<"count", "COUNT", "Count", "Value", "VALUE", "value",
              "TOTAL", "Total", "total">>
        direct == IF "count" \in DOMAIN record THEN parseCountValue(record.count)
                  ELSE Null
        parsed == firstParsed(record, NUMERIC_FIELD_FALLBACKS)
    IN  IF direct # Null THEN direct.v
        ELSE IF parsed # Null THEN parsed.v
        ELSE 0

\* normalized.forEach(record => ... totals[record.tier] += record.count)
RECURSIVE addCounts(_, _)
addCounts(normalized, totals) ==
    IF normalized = <<>> THEN totals
    ELSE LET record == Head(normalized)
         IN  addCounts(Tail(normalized),
                 IF record.tier # <<>> /\ record.tier \in DOMAIN totals
                 THEN [totals EXCEPT ![record.tier] = @ + record.count.v]
                 ELSE totals)

\* { ...record, tier, count }
setSourceData(state, payload) ==
    LET normalized ==
            [i \in 1..Len(payload) |->
                LET record == payload[i]
                    tier == normalizeTierLabel(
                                IF "tier" \in DOMAIN record THEN record.tier ELSE <<>>,
                                IF "BEN_CODE" \in DOMAIN record THEN record.BEN_CODE
                                ELSE <<>>)
                    count == Num(normalizeCount(record))
                IN  [f \in DOMAIN record \cup {"tier", "count"} |->
                        IF f = "tier" THEN tier
                        ELSE IF f = "count" THEN count
                        ELSE record[f]]]
    IN  [state EXCEPT
            !.sourceData = normalized,
            !.controlTotals =
                addCounts(normalized,
                          (EE :> 0) @@ (EE_Spouse :> 0) @@ (EE_Children :> 0)
                              @@ (EE_Family :> 0))]

(***************************************************************************)
(* Inputs.                                                                 *)
(***************************************************************************)
NoCall == [op |-> "none"]
Call(name, v) == [op |-> name, value |-> v]

\* the client has just been loaded and the server has no request in hand
AppIdle ==
    /\ validation = validationInitial
    /\ enrollment = enrollmentInitial
    /\ requests = <<>>
    /\ uploadsDir = {}

MM1 == <<"M", "M", "1">>
XVAL == <<"X", "V", "A", "L">>
ZZZ == <<"Z", "Z", "Z">>
XYZ == <<"X", "Y", "Z">>

AllowedTabs ==
    {"Centinela", "Coshocton", "Dallas Medical Center", "Dallas Regional",
     "East Liverpool", "Encino-Garden Grove", "Garden City", "Harlingen",
     "Illinois", "Knapp", "Lake Huron", "Landmark", "Legacy", "Lower Bucks",
     "Mission", "Monroe", "North Vista", "Pampa", "Providence & St John",
     "Riverview & Gadsden", "Roxborough", "Saint Clare's", "Saint Mary's Passaic",
     "Saint Mary's Reno", "Southern Regional", "St Joe & St Mary's",
     "St Michael's", "St. Francis", "Suburban"}

Rec(c, p, b) == [CLIENT_ID |-> c, PLAN |-> p, BEN_CODE |-> b]
RecN(c, p, b, n) == [CLIENT_ID |-> c, PLAN |-> p, BEN_CODE |-> b, count |-> n]

BenCodes == {EMP, ECH, XYZ, EE}

Records ==
    {Rec(H3170, p, EMP) : p \in {MM1, XVAL, ZZZ}}
    \cup {Rec(H3270, p, EMP) : p \in {MM1, ZZZ}}
    \cup {Rec(H3310, MM1, EMP)}
    \cup {Rec(H3170, MM1, b) : b \in BenCodes}
    \cup {RecN(H3170, MM1, EMP, Num(2))}

SeqsUpTo(S, n) == UNION {[1..k -> S] : k \in 0..n}

\* the orderings of the same records
Orderings(seq) ==
    {[i \in 1..Len(seq) |-> seq[order[i]]] : order \in Permutations(1..Len(seq))}

PlanMappingTables == {MM1 :> "EPO", (MM1 :> "EPO") @@ (ZZZ :> "PPO")}

Configs ==
    {[planMappings |-> m, allowedTabs |-> a, excludedClientIds |-> x] :
        m \in PlanMappingTables, a \in {AllowedTabs, {"Legacy"}}, x \in {{H3310}, {}}}

(***************************************************************************)
(* Spec: the enrollment processor and its route, applied to one request.   *)
(***************************************************************************)
Init ==
    /\ data \in SeqsUpTo(Records, MaxRecords)
    /\ config \in Configs
    /\ reqTabData = <<>>
    /\ ret = NoCall
    /\ storedConfig = <<>>
    /\ tabConfigs = <<>>
    /\ AppIdle

ProcessEnrollmentData ==
    /\ ret' = Call("processEnrollmentData", processEnrollmentData(data, config))
    /\ UNCHANGED <<validation, enrollment, requests, uploadsDir,
                 data, config, reqTabData, storedConfig, tabConfigs>>

CalculateTierTotals ==
    /\ ret' = Call("calculateTierTotals", calculateTierTotals(data))
    /\ UNCHANGED <<validation, enrollment, requests, uploadsDir,
                 data, config, reqTabData, storedConfig, tabConfigs>>

GetPlanType ==
    /\ \E i \in 1..Len(data) :
          ret' = [op |-> "getPlanType", planCode |-> data[i].PLAN,
                  value |-> getPlanType(data[i].PLAN, config.planMappings)]
    /\ UNCHANGED <<validation, enrollment, requests, uploadsDir,
                 data, config, reqTabData, storedConfig, tabConfigs>>

PostProcess ==
    /\ \E body \in {[data |-> d, config |-> config] : d \in {Arr(data), NotArray}} :
          ret' = [op |-> "POST /process", body |-> body, value |-> postProcess(body)]
    /\ UNCHANGED <<validation, enrollment, requests, uploadsDir,
                 data, config, reqTabData, storedConfig, tabConfigs>>

\* the tabs that processEnrollmentData produced go through runValidation
ValidateProcessed ==
    /\ ret.op = "processEnrollmentData"
    /\ ret' = [op |-> "runValidation", tabData |-> ret.value.tabData,
               value |-> runValidation(data, ret.value.tabData, config)]
    /\ UNCHANGED <<validation, enrollment, requests, uploadsDir,
                 data, config, reqTabData, storedConfig, tabConfigs>>

\* the records that were processed are processed once more, in any order
ProcessReordered ==
    /\ ret.op = "processEnrollmentData"
    /\ \E reordered \in Orderings(data) :
          /\ data' = reordered
          /\ ret' = [op |-> "processEnrollmentData",
                     value |-> processEnrollmentData(reordered, config),
                     before |-> ret.value]
    /\ UNCHANGED <<validation, enrollment, requests, uploadsDir,
                 config, reqTabData, storedConfig, tabConfigs>>

Next ==
    \/ ProcessEnrollmentData
    \/ CalculateTierTotals
    \/ GetPlanType
    \/ PostProcess
    \/ ValidateProcessed
    \/ ProcessReordered

Spec == Init /\ [][Next]_vars

(***************************************************************************)
(* SpecClients: the same calls on records whose client ids are routed,     *)
(* unknown to the routing table or excluded, in normal form or not, under  *)
(* a config whose allowedTabs is the static list or a list of the          *)
(* request's own.                                                          *)
(***************************************************************************)
ClientRecords ==
    {Rec(c, p, EMP) : c \in {H3170, h3170, H3270, H3310, h3310}, p \in {MM1, ZZZ}}

ClientConfigs ==
    {[planMappings |-> MM1 :> "EPO", allowedTabs |-> a, excludedClientIds |-> x] :
        a \in {AllowedTabs, {"Legacy", "Unlisted"}}, x \in {{H3310}, {H3170}, {}}}

InitClients ==
    /\ data \in SeqsUpTo(ClientRecords, MaxRecords)
    /\ config \in ClientConfigs
    /\ reqTabData = <<>>
    /\ ret = NoCall
    /\ storedConfig = <<>>
    /\ tabConfigs = <<>>
    /\ AppIdle

SpecClients == InitClients /\ [][Next]_vars

(***************************************************************************)
(* SpecSplit: splitChildTier applied to the records of one sheet, which    *)
(* carry their tier and, some of them, the number of child dependents.     *)
(***************************************************************************)
MaxDependents == 3

TieredRecords ==
    {[CLIENT_ID |-> H3250, tier |-> t] : t \in {EE, EE_Children}}
    \cup {[CLIENT_ID |-> H3250, tier |-> t, dependentCount |-> n] :
            t \in {EE, EE_Children}, n \in 0..MaxDependents}

InitSplit ==
    /\ data \in SeqsUpTo(TieredRecords, MaxRecords)
    /\ config \in {c \in ClientConfigs :
                      c.allowedTabs = AllowedTabs /\ c.excludedClientIds = {H3310}}
    /\ reqTabData = <<>>
    /\ ret = NoCall
    /\ storedConfig = <<>>
    /\ tabConfigs = <<>>
    /\ AppIdle

SplitChildTier ==
    /\ \E is5Tier \in BOOLEAN :
          ret' = [op |-> "splitChildTier", is5Tier |-> is5Tier,
                  value |-> splitChildTier(data, is5Tier),
                  logged |-> splitChildTierLog(data, is5Tier)]
    /\ UNCHANGED <<validation, enrollment, requests, uploadsDir,
                 data, config, reqTabData, storedConfig, tabConfigs>>

NextSplit == SplitChildTier

SpecSplit == InitSplit /\ [][NextSplit]_vars

(***************************************************************************)
(* SpecScenarioA: the four records of the single client H3397 (Monroe),    *)
(* one per coverage code, under a plan code mapped to EPO.                 *)
(***************************************************************************)
ScenarioA == <<Rec(H3397, MM1, EMP), Rec(H3397, MM1, ESP),
               Rec(H3397, MM1, ECH), Rec(H3397, MM1, FAM)>>

InitScenarioA ==
    /\ data \in Orderings(ScenarioA)
    /\ config \in {[planMappings |-> m, allowedTabs |-> a, excludedClientIds |-> x] :
                      m \in PlanMappingTables, a \in {AllowedTabs, {"Monroe"}},
                      x \in {{H3310}, {}}}
    /\ reqTabData = <<>>
    /\ ret = NoCall
    /\ storedConfig = <<>>
    /\ tabConfigs = <<>>
    /\ AppIdle

SpecScenarioA == InitScenarioA /\ [][Next]_vars

(***************************************************************************)
(* SpecRoute: POST /process on request bodies whose records are well       *)
(* formed or lack a field, carry an unknown coverage code or a malformed   *)
(* client id.                                                              *)
(***************************************************************************)
RouteRecords ==
    {Rec(H3170, MM1, EMP), Rec(H3270, MM1, FAM),
     Rec(H3170, <<>>, EMP), [CLIENT_ID |-> H3170, PLAN |-> MM1],
     Rec(<<>>, MM1, ECH), Rec(H3170, MM1, XYZ),
     Rec(h3170, MM1, EMP), Rec(<<"H">>, MM1, ESP)}

InitRoute ==
    /\ data \in SeqsUpTo(RouteRecords, MaxRecords)
    /\ config \in ClientConfigs
    /\ reqTabData = <<>>
    /\ ret = NoCall
    /\ storedConfig = <<>>
    /\ tabConfigs = <<>>
    /\ AppIdle

NextRoute == PostProcess

SpecRoute == InitRoute /\ [][NextRoute]_vars

(***************************************************************************)
(* SpecValidate: runValidation applied to the body of one                  *)
(* POST /validation/validate.                                              *)
(***************************************************************************)
Block(label, planType) == [label |-> label, plan_type |-> planType]

Tab(name, clientIds, blocks, totals) ==
    [name |-> name, client_ids |-> clientIds, blocks |-> blocks,
     totals |-> totals, hasDiscrepancies |-> FALSE]

TabInputs ==
    {Tab("Legacy", <<H3170>>, <<>>, t) :
        t \in {expectedTotals, [expectedTotals EXCEPT ![EE] = @ - 1]}}
    \cup {Tab("Centinela", <<H3270>>, b, t) :
            b \in {<<Block("EPO", "EPO"), Block("EPO 2", "EPO")>>,
                   <<Block("EPO", "EPO"), Block("VALUE", "VALUE")>>},
            t \in {createEmptyTotals,
                   [createEmptyTotals EXCEPT ![EE] = 1] @@ (EE_Child :> 3)}}
    \cup {[name |-> "Monroe"]}

ValidateRecords ==
    {Rec(H3170, MM1, EMP), Rec(H3170, ZZZ, EMP), Rec(H3270, ZZZ, EMP), Rec(H3310, MM1, EMP)}

InitValidate ==
    /\ data \in SeqsUpTo(ValidateRecords, MaxRecords)
    /\ config \in {c \in Configs : c.allowedTabs = AllowedTabs}
    /\ reqTabData \in SeqsUpTo(TabInputs, MaxTabs)
    /\ ret = NoCall
    /\ storedConfig = <<>>
    /\ tabConfigs = <<>>
    /\ AppIdle

PostValidate ==
    /\ ret' = [op |-> "runValidation", tabData |-> reqTabData,
               value |-> runValidation(data, reqTabData, config)]
    /\ UNCHANGED <<validation, enrollment, requests, uploadsDir,
                 data, config, reqTabData, storedConfig, tabConfigs>>

NextValidate == PostValidate

SpecValidate == InitValidate /\ [][NextValidate]_vars

(***************************************************************************)
(* SpecConfig: configurations loaded on the server (POST /config/import)   *)
(* and in the client's store (setTabConfigs, updateTabConfig).             *)
(***************************************************************************)
BlockAgg(clientId, blocks) == [client_id |-> clientId, blocks |-> blocks]
SumBlock(planType, codes) == [plan_type |-> planType, sum_of |-> codes]

TabConfigInputs ==
    {[name |-> "Encino-Garden Grove", client_ids |-> <<H3250>>, is_5tier |-> TRUE,
      blocks |-> <<BlockAgg(H3250,
                      ("SEIU 121 RN" :> SumBlock("EPO", <<MM1>>))
                      @@ ("Non-Union" :> SumBlock("EPO", codes)))>>] :
        codes \in {<<ZZZ>>, <<MM1, ZZZ>>}}
    \cup {[name |-> "Legacy", client_ids |-> <<H3170>>,
           blocks |-> <<BlockAgg(H3170, "EPO" :> SumBlock("EPO", codes))>>] :
            codes \in {<<MM1>>, <<MM1, ZZZ>>}}

ImportBodies ==
    {<<>>}
    \cup {"tabConfigs" :> t : t \in SeqsUpTo(TabConfigInputs, MaxTabConfigs)}
    \cup {("planMappings" :> [mappings |-> m]) @@ ("tabConfigs" :> <<t>>) :
            m \in PlanMappingTables, t \in TabConfigInputs}

InitConfig ==
    /\ data = <<>>
    /\ config \in {c \in Configs : c.allowedTabs = AllowedTabs /\ c.excludedClientIds = {H3310}}
    /\ reqTabData = <<>>
    /\ ret = NoCall
    /\ storedConfig = <<>>
    /\ tabConfigs = <<>>
    /\ AppIdle

PostImport ==
    /\ \E body \in ImportBodies : \E failAt \in {"none"} \cup DOMAIN body :
          LET out == importConfig(storedConfig, body, failAt)
          IN  /\ storedConfig' = out.files
              /\ ret' = Call("POST /import", [status |-> out.status])
    /\ UNCHANGED <<validation, enrollment, requests, uploadsDir,
                 data, config, reqTabData, tabConfigs>>

SetTabConfigs ==
    /\ \E payload \in SeqsUpTo(TabConfigInputs, MaxTabConfigs) :
          tabConfigs' = setTabConfigs(tabConfigs, payload)
    /\ UNCHANGED <<validation, enrollment, requests, uploadsDir,
                 data, config, reqTabData, ret, storedConfig>>

UpdateTabConfig ==
    /\ \E payload \in TabConfigInputs :
          tabConfigs' = updateTabConfig(tabConfigs, payload)
    /\ UNCHANGED <<validation, enrollment, requests, uploadsDir,
                 data, config, reqTabData, ret, storedConfig>>

NextConfig ==
    \/ PostImport
    \/ SetTabConfigs
    \/ UpdateTabConfig

SpecConfig == InitConfig /\ [][NextConfig]_vars

(***************************************************************************)
(* SpecValidationSlice: the reducers of the client's validationSlice and   *)
(* the Apply Fix button of the discrepancy panel.                          *)
(***************************************************************************)
MaxIssues == 2

IssueInputs ==
    {[id |-> "issue-1", type |-> "error", category |-> "missing_mapping",
      suggestedFix |-> "Add mapping"],
     [id |-> "issue-1", type |-> "warning", category |-> "unassigned_plan",
      suggestedFix |-> "Map client ID"],
     [id |-> "issue-2", type |-> "error", category |-> "total_mismatch"],
     [id |-> "issue-3", type |-> "info", category |-> "multi_block", tab |-> "Centinela"]}

\* the store as configureStore creates it; the server is not involved
InitStore ==
    /\ data = <<>>
    /\ config \in {c \in ClientConfigs :
                      c.allowedTabs = AllowedTabs /\ c.excludedClientIds = {H3310}}
    /\ reqTabData = <<>>
    /\ ret = NoCall
    /\ storedConfig = <<>>
    /\ tabConfigs = <<>>
    /\ AppIdle

\* setIssues: the summary counts errors and warnings, any other type is info
SetIssues ==
    /\ \E payload \in SeqsUpTo(IssueInputs, MaxIssues) :
          LET counted == summaryOf(payload)
          IN  validation' =
                  [validation EXCEPT
                      !.issues = payload,
                      !.summary = [counted EXCEPT
                                      !.info = Len(payload) - counted.errors
                                                            - counted.warnings]]
    /\ UNCHANGED <<data, config, reqTabData, ret, storedConfig, tabConfigs,
                   enrollment, requests, uploadsDir>>

AddIssue ==
    /\ Len(validation.issues) < MaxIssues
    /\ \E payload \in IssueInputs :
          validation' = [validation EXCEPT !.issues = Append(@, payload)]
    /\ UNCHANGED <<data, config, reqTabData, ret, storedConfig, tabConfigs,
                   enrollment, requests, uploadsDir>>

RemoveIssue ==
    /\ \E payload \in {i.id : i \in IssueInputs} :
          validation' =
              [validation EXCEPT
                  !.issues = SelectSeq(@, LAMBDA issue : issue.id # payload)]
    /\ UNCHANGED <<data, config, reqTabData, ret, storedConfig, tabConfigs,
                   enrollment, requests, uploadsDir>>

SelectIssue ==
    /\ \E payload \in Range(validation.issues) \cup {Null} :
          validation' = [validation EXCEPT !.selectedIssue = payload]
    /\ UNCHANGED <<data, config, reqTabData, ret, storedConfig, tabConfigs,
                   enrollment, requests, uploadsDir>>

\* setFilters: { ...state.filters, ...action.payload }
SetFilters ==
    /\ \E payload \in {[type |-> <<"error">>],
                        [category |-> <<"multi_block">>, tab |-> <<"Centinela">>]} :
          validation' =
              [validation EXCEPT
                  !.filters = [f \in DOMAIN @ |->
                                  IF f \in DOMAIN payload THEN payload[f] ELSE @[f]]]
    /\ UNCHANGED <<data, config, reqTabData, ret, storedConfig, tabConfigs,
                   enrollment, requests, uploadsDir>>

ClearValidation ==
    /\ validation' = [validation EXCEPT
                         !.issues = <<>>, !.summary = Null, !.selectedIssue = Null]
    /\ UNCHANGED <<data, config, reqTabData, ret, storedConfig, tabConfigs,
                   enrollment, requests, uploadsDir>>

\* handleApplyFix(selectedIssue): for an issue that carries a suggestedFix,
\* removeIssue(issue.id) and then selectIssue(null)
ApplyFix ==
    /\ validation.selectedIssue # Null
    /\ "suggestedFix" \in DOMAIN validation.selectedIssue
    /\ validation' =
          [validation EXCEPT
              !.issues = SelectSeq(@, LAMBDA issue :
                                         issue.id # validation.selectedIssue.id),
              !.selectedIssue = Null]
    /\ UNCHANGED <<data, config, reqTabData, ret, storedConfig, tabConfigs,
                   enrollment, requests, uploadsDir>>

NextValidationSlice ==
    \/ SetIssues
    \/ AddIssue
    \/ RemoveIssue
    \/ SelectIssue
    \/ SetFilters
    \/ ClearValidation
    \/ ApplyFix

SpecValidationSlice == InitStore /\ [][NextValidationSlice]_vars

(***************************************************************************)
(* SpecEnrollmentSlice: the reducers of the client's enrollmentSlice,      *)
(* dispatched in any order.                                                *)
(***************************************************************************)
\* rows as POST /upload/parse returns them (count: null when the workbook
\* has no count column), and one record that has no count field at all
UploadRows ==
    {RecN(H3170, MM1, EMP, Num(2)),
     RecN(H3170, MM1, ECH, Null),
     RecN(H3170, MM1, <<"e", "c", "h">>, Num(1)),
     RecN(H3170, MM1, <<" ", "E", "M", "P", " ">>, Num(1)),
     RecN(H3170, MM1, E1D, Num(3)),
     Rec(H3170, MM1, FAM)}

Files == {"a.xlsx", "b.xlsx", "corrupt.xlsx"}

SetSourceData ==
    /\ \E payload \in SeqsUpTo(UploadRows, MaxRecords) :
          enrollment' = setSourceData(enrollment, payload)
    /\ UNCHANGED <<data, config, reqTabData, ret, storedConfig, tabConfigs,
                   validation, requests, uploadsDir>>

SetTabData ==
    /\ \E payload \in {<<>>,
                        processEnrollmentData(<<Rec(H3170, MM1, EMP)>>, config).tabData} :
          enrollment' = [enrollment EXCEPT !.tabData = payload]
    /\ UNCHANGED <<data, config, reqTabData, ret, storedConfig, tabConfigs,
                   validation, requests, uploadsDir>>

UploadFile ==
    /\ \E payload \in Files \cup {NoFile} :
          enrollment' = [enrollment EXCEPT
                            !.uploadedFile = payload,
                            !.loading = TRUE,
                            !.error = NoError]
    /\ UNCHANGED <<data, config, reqTabData, ret, storedConfig, tabConfigs,
                   validation, requests, uploadsDir>>

SetLoading ==
    /\ \E payload \in BOOLEAN :
          enrollment' = [enrollment EXCEPT !.loading = payload]
    /\ UNCHANGED <<data, config, reqTabData, ret, storedConfig, tabConfigs,
                   validation, requests, uploadsDir>>

SetError ==
    /\ \E payload \in {NoError, "Failed to parse file"} :
          enrollment' = [enrollment EXCEPT !.error = payload, !.loading = FALSE]
    /\ UNCHANGED <<data, config, reqTabData, ret, storedConfig, tabConfigs,
                   validation, requests, uploadsDir>>

\* clearData leaves controlTotals and loading as they are
ClearData ==
    /\ enrollment' = [enrollment EXCEPT
                         !.sourceData = <<>>,
                         !.tabData = <<>>,
                         !.uploadedFile = NoFile,
                         !.error = NoError]
    /\ UNCHANGED <<data, config, reqTabData, ret, storedConfig, tabConfigs,
                   validation, requests, uploadsDir>>

NextEnrollmentSlice ==
    \/ SetSourceData
    \/ SetTabData
    \/ UploadFile
    \/ SetLoading
    \/ SetError
    \/ ClearData

SpecEnrollmentSlice == InitStore /\ [][NextEnrollmentSlice]_vars

(***************************************************************************)
(* SpecUpload: the FileUpload component (onDrop, clearFile) with the       *)
(* routes POST /upload/parse and POST /upload/validate-structure.          *)
(* requests holds the parse requests in flight, in the order they were     *)
(* sent; uploadsDir holds the files that multer stored and nothing has      *)
(* unlinked, named by route and original file.  The component's local      *)
(* preview rows are left out.                                              *)
(***************************************************************************)
MaxUploads == 2

\* the first sheet of each file; XLSX.readFile throws on corrupt.xlsx
Workbooks ==
    ("a.xlsx" :> [readable |-> TRUE,
                  rows |-> <<[CLIENT_ID |-> H3170, PLAN |-> MM1, BEN_CODE |-> EMP,
                              COUNT |-> Num(2)]>>])
    @@ ("b.xlsx" :> [readable |-> TRUE,
                     rows |-> <<("Client ID" :> H3270) @@ ("Plan" :> MM1)
                                    @@ ("Ben Code" :> ECH)>>])
    @@ ("corrupt.xlsx" :> [readable |-> FALSE, rows |-> <<>>])

\* processedData of POST /upload/parse; a || b || c over an absent column is
\* <<>>, extractCount is null when no count column parses
parseWorkbook(rows) ==
    [i \in 1..Len(rows) |->
        LET row == rows[i]
            present(names) == {j \in 1..Len(names) : names[j] \in DOMAIN row
                                                      /\ row[names[j]] # <<>>}
            pick(names) ==
                IF present(names) = {} THEN <<>>
                ELSE row[names[CHOOSE j \in present(names) :
                                   \A h \in present(names) : j <= h]]
        IN  [CLIENT_ID |-> pick(<<"CLIENT_ID", "Client ID", "client_id">>),
             PLAN |-> pick(<<"PLAN", "Plan", "plan">>),
             BEN_CODE |-> pick(<<"BEN CODE", "Ben Code", "BEN_CODE", "ben_code">>),
             count |-> firstParsed(row, <<"COUNT", "Count", "count", "VALUE", "Value",
                                          "value", "TOTAL", "Total", "total">>)]]

\* onDrop up to its await: uploadFile(file), setLoading(true), parseFile(file).
\* The dropzone is rendered only while no file is selected.
OnDrop ==
    /\ enrollment.uploadedFile = NoFile
    /\ Len(requests) < MaxUploads
    /\ \E file \in Files :
          /\ enrollment' = [enrollment EXCEPT
                               !.uploadedFile = file,
                               !.loading = TRUE,
                               !.error = NoError]
          /\ requests' = Append(requests, [file |-> file, stage |-> "sent"])
    /\ UNCHANGED <<data, config, reqTabData, ret, storedConfig, tabConfigs,
                   validation, uploadsDir>>

\* POST /upload/parse: multer stores the file, the handler reads the
\* workbook and unlinks the file; the catch branch answers 500
PostParse(k) ==
    /\ requests[k].stage = "sent"
    /\ LET file == requests[k].file
           stored == [route |-> "parse", file |-> file]
       IN  IF Workbooks[file].readable
           THEN /\ uploadsDir' = (uploadsDir \cup {stored}) \ {stored}
                /\ requests' =
                      [requests EXCEPT
                          ![k] = [file |-> file, stage |-> "settled",
                                  response |->
                                      [status |-> 200,
                                       data |-> parseWorkbook(Workbooks[file].rows)]]]
           ELSE /\ uploadsDir' = uploadsDir \cup {stored}
                /\ requests' =
                      [requests EXCEPT
                          ![k] = [file |-> file, stage |-> "settled",
                                  response |-> [status |-> 500,
                                                error |-> "Unsupported file"]]]
    /\ UNCHANGED <<data, config, reqTabData, ret, storedConfig, tabConfigs,
                   validation, enrollment>>

\* POST /upload/validate-structure, sent by any client of the API
PostValidateStructure ==
    /\ \E file \in Files :
          LET stored == [route |-> "validate-structure", file |-> file]
              rows == Workbooks[file].rows
          IN  IF Workbooks[file].readable
              THEN /\ uploadsDir' = (uploadsDir \cup {stored}) \ {stored}
                   /\ ret' = Call("POST /upload/validate-structure",
                                  [status |-> 200,
                                   rowCount |-> Len(rows) + 1,
                                   headers |-> DOMAIN rows[1]])
              ELSE /\ uploadsDir' = uploadsDir \cup {stored}
                   /\ ret' = Call("POST /upload/validate-structure",
                                  [status |-> 500, error |-> "Unsupported file"])
    /\ UNCHANGED <<data, config, reqTabData, storedConfig, tabConfigs,
                   validation, enrollment, requests>>

\* the request never reaches the server, or the body that arrives has no data
TransportFault(k) ==
    /\ requests[k].stage = "sent"
    /\ \E response \in {[status |-> 0, message |-> "Network Error"],
                         [status |-> 200]} :
          requests' = [requests EXCEPT
                          ![k] = [file |-> requests[k].file, stage |-> "settled",
                                  response |-> response]]
    /\ UNCHANGED <<data, config, reqTabData, ret, storedConfig, tabConfigs,
                   validation, enrollment, uploadsDir>>

\* onDrop after its await: setSourceData(data), setLoading(false), or the
\* catch branch with setError(err.response?.data?.error || err.message || ...)
OnDropResume(k) ==
    /\ requests[k].stage = "settled"
    /\ LET response == requests[k].response
       IN  IF response.status = 200 /\ "data" \in DOMAIN response
           THEN enrollment' = [setSourceData(enrollment, response.data)
                                  EXCEPT !.loading = FALSE]
           ELSE enrollment' =
                    [enrollment EXCEPT
                        !.error = IF "error" \in DOMAIN response THEN response.error
                                  ELSE IF "message" \in DOMAIN response
                                       THEN response.message
                                  ELSE "Cannot read properties of undefined",
                        !.loading = FALSE]
    /\ requests' = [i \in 1..(Len(requests) - 1) |->
                       IF i < k THEN requests[i] ELSE requests[i + 1]]
    /\ UNCHANGED <<data, config, reqTabData, ret, storedConfig, tabConfigs,
                   validation, uploadsDir>>

\* clearFile: uploadFile(null); the button is shown while a file is selected
ClearFile ==
    /\ enrollment.uploadedFile # NoFile
    /\ enrollment' = [enrollment EXCEPT
                         !.uploadedFile = NoFile,
                         !.loading = TRUE,
                         !.error = NoError]
    /\ UNCHANGED <<data, config, reqTabData, ret, storedConfig, tabConfigs,
                   validation, requests, uploadsDir>>

NextUpload ==
    \/ OnDrop
    \/ \E k \in 1..Len(requests) : PostParse(k)
    \/ PostValidateStructure
    \/ \E k \in 1..Len(requests) : TransportFault(k)
    \/ \E k \in 1..Len(requests) : OnDropResume(k)
    \/ ClearFile

SpecUpload == InitStore /\ [][NextUpload]_vars

(***************************************************************************)
(* SpecTotals: one list of records given to the client's setSourceData     *)
(* and to the server's processEnrollmentData, with every plan code mapped  *)
(* and no client excluded.                                                 *)
(***************************************************************************)
InitTotals ==
    /\ data \in SeqsUpTo(UploadRows, MaxRecords)
    /\ config \in {c \in ClientConfigs :
                      c.allowedTabs = AllowedTabs /\ c.excludedClientIds = {}}
    /\ reqTabData = <<>>
    /\ ret = NoCall
    /\ storedConfig = <<>>
    /\ tabConfigs = <<>>
    /\ AppIdle

LoadSourceData ==
    /\ enrollment' = setSourceData(enrollment, data)
    /\ UNCHANGED <<data, config, reqTabData, ret, storedConfig, tabConfigs,
                   validation, requests, uploadsDir>>

NextTotals ==
    \/ LoadSourceData
    \/ ProcessEnrollmentData

SpecTotals == InitTotals /\ [][NextTotals]_vars

(***************************************************************************)
(* SpecMappings: POST /config/plan-mappings/add.  The handler awaits twice, *)
(* in loadJsonFile and in saveJsonFile, so requests interleave between the  *)
(* read and the write of plan_mappings.json.  requests is the log of the    *)
(* requests received, each with the content it has read.                   *)
(***************************************************************************)
MaxAdds == 2

StoredBefore == [mappings |-> (MM1 :> "EPO")]

InitMappings ==
    /\ data = <<>>
    /\ config \in {c \in Configs : c.allowedTabs = AllowedTabs /\ c.excludedClientIds = {H3310}}
    /\ reqTabData = <<>>
    /\ ret = NoCall
    /\ storedConfig = ("plan_mappings.json" :> StoredBefore)
    /\ tabConfigs = <<>>
    /\ AppIdle

\* the handler up to the end of await loadJsonFile: 400 for a missing code or
\* type, otherwise current is the content read ({} when the file is absent)
AddMappingLoad ==
    /\ Len(requests) < MaxAdds
    /\ \E code \in {ZZZ, XVAL, <<>>} : \E type \in {"PPO", "VALUE"} :
          requests' =
              Append(requests,
                  IF code = <<>>
                  THEN [code |-> code, type |-> type, stage |-> "done", status |-> 400]
                  ELSE [code |-> code, type |-> type, stage |-> "loaded",
                        current |-> IF "plan_mappings.json" \in DOMAIN storedConfig
                                    THEN storedConfig["plan_mappings.json"]
                                    ELSE [mappings |-> <<>>]])
    /\ UNCHANGED <<data, config, reqTabData, ret, storedConfig, tabConfigs,
                   validation, enrollment, uploadsDir>>

\* current.mappings[code] = type; await saveJsonFile(...); 200, or 500 when
\* the write throws
AddMappingSave(k) ==
    /\ requests[k].stage = "loaded"
    /\ \E written \in BOOLEAN :
          LET r == requests[k]
              code == r.code
              mappings == [c \in DOMAIN r.current.mappings \cup {code} |->
                              IF c = code THEN r.type ELSE r.current.mappings[c]]
          IN  /\ storedConfig' =
                    IF written
                    THEN saveJsonFile(storedConfig, "plan_mappings.json",
                                      [r.current EXCEPT !.mappings = mappings])
                    ELSE storedConfig
              /\ requests' =
                    [requests EXCEPT
                        ![k] = [code |-> r.code, type |-> r.type, stage |-> "done",
                                status |-> IF written THEN 200 ELSE 500]]
    /\ UNCHANGED <<data, config, reqTabData, ret, tabConfigs,
                   validation, enrollment, uploadsDir>>

NextMappings ==
    \/ AddMappingLoad
    \/ \E k \in 1..Len(requests) : AddMappingSave(k)

SpecMappings == InitMappings /\ [][NextMappings]_vars

(***************************************************************************)
(* Properties.                                                             *)
(***************************************************************************)
RealTiers == {EE, EE_Spouse, EE_Children, EE_Family}
UNKNOWN == <<"U", "N", "K", "N", "O", "W", "N">>

\* the sum of f[x] over the x of S
RECURSIVE SumOver(_, _)
SumOver(S, f) ==
    IF S = {} THEN 0
    ELSE LET x == CHOOSE y \in S : TRUE IN f[x] + SumOver(S \ {x}, f)

Units == [i \in 1..Len(data) |-> recordUnits(data[i])]

TabOf(record) == getTabForClientId(normalizeClientId(record.CLIENT_ID))

\* the records that are neither excluded nor of an unknown plan type
Eligible ==
    {i \in 1..Len(data) :
        /\ data[i].CLIENT_ID \notin config.excludedClientIds
        /\ getPlanType(data[i].PLAN, config.planMappings) # "UNKNOWN"}

\* the records routed to the tab of that name
RoutedTo(name) ==
    {i \in Eligible : TabOf(data[i]) = name /\ name \in config.allowedTabs}

InTable(i) == data[i].BEN_CODE \in DOMAIN tierMap
TableTier(i) == tierMap[data[i].BEN_CODE]

Processed == ret.op = "processEnrollmentData"
TabsOut == ret.value.tabData

\* C1: for every tab returned by processEnrollmentData, the sum over tiers of
\* the tab's totals equals the number of non-excluded source records routed to
\* that tab.
C1_Conservation ==
    Processed =>
        \A k \in 1..Len(TabsOut) :
            SumOver(RealTiers, TabsOut[k].totals)
                = Cardinality(RoutedTo(TabsOut[k].name))

\* a record whose client maps to a tab outside config.allowedTabs
OutsideAllowlist(record) ==
    TabOf(record) # NullTab /\ TabOf(record) \notin config.allowedTabs

\* C2: every tab returned by processEnrollmentData is named in
\* config.allowedTabs, and the records whose client maps to a tab outside
\* config.allowedTabs add nothing: the tabs (totals and client_ids) are those
\* of the input without these records.
C2_AllowlistClosure ==
    Processed =>
        /\ \A k \in 1..Len(TabsOut) : TabsOut[k].name \in config.allowedTabs
        /\ TabsOut =
              processEnrollmentData(
                  SelectSeq(data, LAMBDA r : ~OutsideAllowlist(r)), config).tabData

\* C2 witness: a record of a known plan maps to a tab outside the allowlist,
\* next to a record that reached its tab.
C2_Witness ==
    /\ Processed
    /\ \E i \in Eligible : OutsideAllowlist(data[i])
    /\ Len(TabsOut) > 0

\* C3: normalizeTier yields UNKNOWN for every coverage code outside the fixed
\* table, and a record carrying such a code never increases the count of a
\* real tier in calculateTierTotals or in processEnrollmentData (controlTotals
\* and tab totals): each count is made of the records whose code is in the
\* table.
C3_UnknownNeverFolds ==
    /\ ret.op = "calculateTierTotals" =>
          \A t \in RealTiers :
              ret.value[t] =
                  Cardinality({i \in 1..Len(data) : InTable(i) /\ TableTier(i) = t})
    /\ Processed =>
          \A t \in RealTiers :
              /\ ret.value.controlTotals[t] =
                    SumOver({i \in Eligible : InTable(i) /\ TableTier(i) = t}, Units)
              /\ \A k \in 1..Len(TabsOut) :
                    TabsOut[k].totals[t] =
                        SumOver({i \in RoutedTo(TabsOut[k].name) :
                                    InTable(i) /\ TableTier(i) = t}, Units)
    /\ ret.op \in {"calculateTierTotals", "processEnrollmentData"} =>
          \A i \in 1..Len(data) : ~InTable(i) => normalizeTier(data[i].BEN_CODE) = UNKNOWN

\* C4: getPlanType returns the table's plan type for a plan code present in
\* the plan-code table and UNKNOWN for every plan code absent from it.
C4_ExactMatchLookup ==
    ret.op = "getPlanType" =>
        ret.value = IF ret.planCode \in DOMAIN config.planMappings
                    THEN config.planMappings[ret.planCode]
                    ELSE "UNKNOWN"

\* the write key of a record within its tab; the tab's totals are the one block
\* that processEnrollmentData fills, so the block label is the same for all
WriteKey(i) ==
    <<normalizeClientId(data[i].CLIENT_ID),
      getPlanType(data[i].PLAN, config.planMappings),
      normalizeTier(data[i].BEN_CODE)>>

FirstOfKey(i, name) == \A j \in RoutedTo(name) : j < i => WriteKey(j) # WriteKey(i)

\* C5: within one tab a second contribution under a write key that was already
\* counted is dropped: each tier count is made of the first contribution of
\* each key only.
C5_FirstOccurrenceWins ==
    Processed =>
        \A k \in 1..Len(TabsOut) : \A t \in RealTiers :
            TabsOut[k].totals[t] =
                SumOver({i \in RoutedTo(TabsOut[k].name) :
                            normalizeTier(data[i].BEN_CODE) = t
                            /\ FirstOfKey(i, TabsOut[k].name)}, Units)

Validated == ret.op = "runValidation"
Issues == ret.value.issues

\* the sum of a tier over the tabs handed to runValidation
RECURSIVE TierSum(_, _)
TierSum(tabs, tier) ==
    IF tabs = <<>> THEN 0
    ELSE (IF "totals" \in DOMAIN Head(tabs) /\ tier \in DOMAIN Head(tabs).totals
          THEN Head(tabs).totals[tier] ELSE 0)
         + TierSum(Tail(tabs), tier)

MismatchIssues(tier) ==
    {k \in 1..Len(Issues) :
        Issues[k].category = "total_mismatch" /\ Issues[k].details.tier = tier}

\* C6: runValidation sums the tab totals per tier across all tabs and reports
\* exactly one total_mismatch issue for each of the four tiers whose sum
\* differs from the expected control total and none for a tier whose sum
\* matches; the details carry the tier, expected, actual and
\* difference = actual - expected.
C6_ControlTotalIssues ==
    Validated =>
        /\ \A tier \in RealTiers :
              LET actual == TierSum(ret.tabData, tier)
                  expected == expectedTotals[tier]
              IN  IF actual # expected
                  THEN /\ Cardinality(MismatchIssues(tier)) = 1
                       /\ \A k \in MismatchIssues(tier) :
                             Issues[k].details =
                                 [tier |-> tier, expected |-> expected,
                                  actual |-> actual, difference |-> actual - expected]
                  ELSE MismatchIssues(tier) = {}
        /\ \A k \in 1..Len(Issues) :
              Issues[k].category = "total_mismatch" => Issues[k].details.tier \in RealTiers

\* C6 witness: over two tabs or more, one tier adds up to its control total
\* and another one exceeds it.
C6_Witness ==
    /\ Validated
    /\ Len(ret.tabData) >= 2
    /\ \E t \in RealTiers : TierSum(ret.tabData, t) = expectedTotals[t]
    /\ \E t \in RealTiers : TierSum(ret.tabData, t) > expectedTotals[t]
    /\ \E t \in RealTiers : MismatchIssues(t) # {}

\* C7: POST /process releases no tab data while the aggregated tier totals
\* differ from the control totals.
C7_StrictTotalsGateOutput ==
    (ret.op = "POST /process" /\ ret.value.status = 200 /\ Len(ret.value.tabData) > 0) =>
        \A t \in RealTiers : TierSum(ret.value.tabData, t) = expectedTotals[t]

GapIssues(i) ==
    {k \in 1..Len(Issues) :
        /\ Issues[k].category = "missing_mapping"
        /\ Issues[k].plan = data[i].PLAN
        /\ "client_id" \in DOMAIN Issues[k]
        /\ Issues[k].client_id = data[i].CLIENT_ID
        /\ "tab" \in DOMAIN Issues[k]
        /\ Issues[k].tab = TabOf(data[i])}

\* C8: for every (tab, client id, plan code) of the source data whose plan
\* code has no mapping, runValidation reports exactly one mapping-gap error
\* that identifies the tab, the client id and the plan code.
C8_MappingGapReport ==
    Validated =>
        \A i \in 1..Len(data) :
            data[i].PLAN \notin DOMAIN config.planMappings =>
                Cardinality(GapIssues(i)) = 1

\* C9: a tab for which validation reported a mismatch is never reported with
\* hasDiscrepancies = false.
C9_MismatchFlagsTab ==
    (Validated /\ \E k \in 1..Len(Issues) : Issues[k].category = "total_mismatch") =>
        \A k \in 1..Len(ret.tabData) :
            "hasDiscrepancies" \in DOMAIN ret.tabData[k] => ret.tabData[k].hasDiscrepancies

\* each plan code is in the sum_of list of one block of a client at most
BlocksPartition(tabConfig) ==
    \A k \in 1..Len(tabConfig.blocks) :
        LET blocks == tabConfig.blocks[k].blocks
        IN  \A a, b \in DOMAIN blocks :
                a # b => Range(blocks[a].sum_of) \cap Range(blocks[b].sum_of) = {}

StoredTabConfigs ==
    IF "tab_configs.json" \in DOMAIN storedConfig
    THEN storedConfig["tab_configs.json"] ELSE <<>>

\* C10: a block configuration in which one plan code is in the sum_of lists of
\* two blocks of the same client is rejected when loaded, so neither the
\* server's stored tab configuration nor the client's ever holds one.
C10_PartitionEnforcedAtLoad ==
    /\ \A k \in 1..Len(StoredTabConfigs) : BlocksPartition(StoredTabConfigs[k])
    /\ \A k \in 1..Len(tabConfigs) : BlocksPartition(tabConfigs[k])

\* a record of an excluded client: its client id, as normalizeClientId writes
\* it, is in the excluded-client list
ExcludedClient(record) ==
    normalizeClientId(record.CLIENT_ID) \in config.excludedClientIds

UnassignedWarnings(clientId) ==
    {k \in 1..Len(Issues) :
        Issues[k].category = "unassigned_plan" /\ Issues[k].client_id = clientId}

\* C11: a record of an excluded client adds nothing to controlTotals, to any
\* tab's totals or client_ids or to processedRecords in processEnrollmentData
\* (the result is that of the input without these records), and runValidation
\* raises no unassigned-client warning for it.
C11_ExcludedSkippedEntirely ==
    /\ Processed =>
          LET out == processEnrollmentData(
                         SelectSeq(data, LAMBDA r : ~ExcludedClient(r)), config)
          IN  /\ ret.value.controlTotals = out.controlTotals
              /\ TabsOut = out.tabData
              /\ ret.value.summary.processedRecords = out.summary.processedRecords
    /\ Validated =>
          \A i \in 1..Len(data) :
              ExcludedClient(data[i]) => UnassignedWarnings(data[i].CLIENT_ID) = {}

\* a record whose client is assigned to no tab and is not excluded
Unassigned(record) == TabOf(record) = NullTab /\ ~ExcludedClient(record)

\* C12: every record whose client id is assigned to no tab and is not excluded
\* is left out of all tab totals by processEnrollmentData; runValidation, given
\* the tabs that processEnrollmentData produced for the same records, reports
\* exactly one warning naming that client id; and a client with a record routed
\* to a tab gets no such warning.
C12_UnassignedLeaveTrace ==
    /\ Processed =>
          TabsOut = processEnrollmentData(
                        SelectSeq(data, LAMBDA r : ~Unassigned(r)), config).tabData
    /\ Validated =>
          /\ \A i \in 1..Len(data) :
                Unassigned(data[i]) =>
                    Cardinality(UnassignedWarnings(data[i].CLIENT_ID)) = 1
          /\ \A k \in 1..Len(ret.tabData) : \A i \in RoutedTo(ret.tabData[k].name) :
                UnassignedWarnings(data[i].CLIENT_ID) = {}

Split == ret.op = "splitChildTier"
HasDependentCount(record) == "dependentCount" \in DOMAIN record

\* C13: on a 5-tier sheet splitChildTier maps an EE & Children record with
\* exactly one child dependent to EE & Child and one with two or more to
\* EE & Children, and leaves the records of every other tier unchanged; on a
\* sheet that is not 5-tier it returns the records unchanged, so that no
\* record becomes EE & Child there.
C13_ChildSplit ==
    Split =>
        /\ Len(ret.value) = Len(data)
        /\ \A i \in 1..Len(data) :
              LET r == data[i]
                  out == ret.value[i]
              IN  /\ (ret.is5Tier /\ r.tier = EE_Children /\ HasDependentCount(r)
                          /\ r.dependentCount = 1)
                        => out = [r EXCEPT !.tier = EE_Child]
                  /\ (ret.is5Tier /\ r.tier = EE_Children /\ HasDependentCount(r)
                          /\ r.dependentCount >= 2)
                        => out = r
                  /\ (ret.is5Tier /\ r.tier # EE_Children) => out = r
                  /\ ~ret.is5Tier => (out = r /\ out.tier # EE_Child)

\* C13 witness: on a 5-tier sheet one record with a single child dependent
\* came out as EE & Child next to one with more that stayed EE & Children.
C13_Witness ==
    /\ Split
    /\ ret.is5Tier
    /\ \E i \in 1..Len(data) :
          /\ data[i].tier = EE_Children
          /\ HasDependentCount(data[i]) /\ data[i].dependentCount = 1
          /\ ret.value[i].tier = EE_Child
    /\ \E i \in 1..Len(data) :
          /\ HasDependentCount(data[i]) /\ data[i].dependentCount >= 2
          /\ ret.value[i].tier = EE_Children

\* C14: on a 5-tier sheet a record of code ECH (tier EE & Children) without a
\* dependent count is placed in EE & Children, never in EE & Child, and a
\* warning citing the fallback is logged.
C14_FallbackWithWarning ==
    (Split /\ ret.is5Tier) =>
        \A i \in 1..Len(data) :
            (data[i].tier = EE_Children /\ ~HasDependentCount(data[i])) =>
                /\ ret.value[i].tier = EE_Children
                /\ ret.logged # <<>>

\* C15 (Scenario A): the four records of client H3397 with codes EMP, ESP,
\* ECH, FAM under a mapped EPO plan code, with the client's tab Monroe
\* allowlisted, yield for that tab the tier counts 1, 1, 1, 1, and validation
\* of the result reports 0 issues.
C15_ScenarioA ==
    /\ Processed =>
          \E k \in 1..Len(TabsOut) :
              /\ TabsOut[k].name = "Monroe"
              /\ \A t \in RealTiers : TabsOut[k].totals[t] = 1
    /\ Validated => Len(Issues) = 0

TabNames(tabs) == {tabs[k].name : k \in 1..Len(tabs)}
TabNamed(tabs, name) == tabs[CHOOSE k \in 1..Len(tabs) : tabs[k].name = name]
Reprocessed == Processed /\ "before" \in DOMAIN ret

C18_AllowlistNotWidened ==
    Processed => TabNames(TabsOut) \subseteq AllowedTabs

\* C18 witness: the request's allowedTabs holds a name outside the static
\* list, a record of a known plan belongs to a client the routing table does
\* not know, and a tab was returned.
C18_Witness ==
    /\ Processed
    /\ ~(config.allowedTabs \subseteq AllowedTabs)
    /\ \E i \in Eligible : TabOf(data[i]) = NullTab
    /\ Len(TabsOut) > 0

Posted == ret.op = "POST /process"
FieldOf(record, field) == IF field \in DOMAIN record THEN record[field] ELSE <<>>

FieldsLacking(records) ==
    {f \in {"CLIENT_ID", "PLAN", "BEN_CODE"} :
        \E i \in 1..Len(records) : FieldOf(records[i], f) = <<>>}
CodesOutside(records) ==
    {FieldOf(records[i], "BEN_CODE") : i \in 1..Len(records)} \ {<<>>, EMP, ESP, ECH, FAM}
Malformed(clientId) ==
    ~(Len(clientId) >= 2 /\ clientId[1] = "H"
      /\ \A j \in 2..Len(clientId) : IsDigit(clientId[j]))
IdsMalformed(records) ==
    {c \in {FieldOf(records[i], "CLIENT_ID") : i \in 1..Len(records)} \ {<<>>} :
        Malformed(c)}

\* what is wrong with the data of a request body
Defects(value) ==
    IF value.t # "array" THEN {<<"not_array", {}>>}
    ELSE IF value.v = <<>> THEN {<<"empty", {}>>}
    ELSE {x \in {<<"missing_fields", FieldsLacking(value.v)>>,
                 <<"invalid_ben_code", CodesOutside(value.v)>>,
                 <<"invalid_client_id", IdsMalformed(value.v)>>} : x[2] # {}}

HasRepeatedPlanType(tab) ==
    /\ "blocks" \in DOMAIN tab
    /\ \E a, b \in 1..Len(tab.blocks) :
          a # b /\ tab.blocks[a].plan_type = tab.blocks[b].plan_type

MultiBlockIssues(name) ==
    {k \in 1..Len(Issues) : Issues[k].category = "multi_block" /\ Issues[k].tab = name}

\* C20: runValidation reports a multi_block issue for a tab exactly when the
\* tab has more than one block of the same plan type, and none for a tab
\* whose blocks all have distinct plan types.
C20_MultiBlockDetection ==
    Validated =>
        \A k \in 1..Len(ret.tabData) :
            (MultiBlockIssues(ret.tabData[k].name) # {})
                <=> \E j \in 1..Len(ret.tabData) :
                       /\ ret.tabData[j].name = ret.tabData[k].name
                       /\ HasRepeatedPlanType(ret.tabData[j])

\* C21: once an issue is in the validation state's issues list it stays
\* there: no addIssue, removeIssue, selectIssue, setFilters or Apply Fix step
\* removes a recorded issue.
C21_IssuesNeverThrownAway ==
    [][(AddIssue \/ RemoveIssue \/ SelectIssue \/ SetFilters \/ ApplyFix) =>
          \A k \in 1..Len(validation.issues) :
              validation.issues[k] \in Range(validation'.issues)]_vars

IssuesOfType(type) ==
    Len(SelectSeq(validation.issues, LAMBDA issue : issue.type = type))

\* C25: in every state of the validation slice a summary that is not null
\* agrees with the issues list: totalIssues is the number of issues, and
\* errors, warnings and info are the numbers of issues of these types.
C25_SummaryAgreesWithIssues ==
    validation.summary # Null =>
        /\ validation.summary.totalIssues = Len(validation.issues)
        /\ validation.summary.errors = IssuesOfType("error")
        /\ validation.summary.warnings = IssuesOfType("warning")
        /\ validation.summary.info = IssuesOfType("info")

\* the sum of count over the stored records of one tier
RECURSIVE CountOfTier(_, _)
CountOfTier(records, tier) ==
    IF records = <<>> THEN 0
    ELSE (IF Head(records).tier = tier THEN Head(records).count.v ELSE 0)
         + CountOfTier(Tail(records), tier)

\* C24: in every state of the enrollment slice, controlTotals[tier] is the
\* sum of count over the sourceData records of that tier, for each of the four
\* tiers; all control totals are zero whenever sourceData is empty.
C24_ControlTotalsMatchSourceData ==
    \A tier \in DOMAIN enrollment.controlTotals :
        enrollment.controlTotals[tier] = CountOfTier(enrollment.sourceData, tier)

\* what setSourceData stores for the rows that POST /upload/parse returns
\* for a file
ParsedFrom(file) == setSourceData(enrollmentInitial, parseWorkbook(Workbooks[file].rows))

\* C22: once no parse request is in flight, the stored sourceData and
\* controlTotals are those parsed from the selected file (uploadedFile), never
\* those of a file selected earlier whose response arrived late.
C22_NoStaleUpload ==
    (requests = <<>> /\ enrollment.uploadedFile # NoFile /\ enrollment.error = NoError) =>
        /\ enrollment.sourceData = ParsedFrom(enrollment.uploadedFile).sourceData
        /\ enrollment.controlTotals = ParsedFrom(enrollment.uploadedFile).controlTotals

\* C26: loading is true only while a parse request is in flight: whenever no
\* parse request is pending, also after clearFile, loading is false.
C26_LoadingOnlyWhileInFlight ==
    requests = <<>> => enrollment.loading = FALSE

\* the step in which onDrop resumes with the settled response of request k
Resumes(k) ==
    /\ requests[k].stage = "settled"
    /\ Len(requests') = Len(requests) - 1
    /\ \A i \in 1..Len(requests') :
          requests'[i] = IF i < k THEN requests[i] ELSE requests[i + 1]

Succeeded(k) ==
    requests[k].response.status = 200 /\ "data" \in DOMAIN requests[k].response

\* C27: an upload whose parse request has settled ends with loading = false;
\* on success sourceData is replaced by the parsed rows and error is null, on
\* failure (rejected request or malformed response) error is a message.
C27_UploadEnds ==
    [][\A k \in 1..Len(requests) :
          Resumes(k) =>
              /\ enrollment'.loading = FALSE
              /\ Succeeded(k) =>
                    /\ enrollment'.sourceData = ParsedFrom(requests[k].file).sourceData
                    /\ enrollment'.error = NoError
              /\ ~Succeeded(k) => enrollment'.error # NoError]_vars

\* C30: a file stored in the uploads directory by POST /upload/parse or
\* POST /upload/validate-structure is deleted by the time the response is
\* sent, whether the request succeeds or fails.
C30_UploadsDeleted ==
    uploadsDir = {}

\* the sum over the tabs of the four tier totals of each tab
RECURSIVE SumOfTabTotals(_)
SumOfTabTotals(tabs) ==
    IF tabs = <<>> THEN 0
    ELSE Head(tabs).totals[EE] + Head(tabs).totals[EE_Spouse]
         + Head(tabs).totals[EE_Children] + Head(tabs).totals[EE_Family]
         + SumOfTabTotals(Tail(tabs))

\* C29: summary.processedRecords returned by processEnrollmentData equals the
\* sum over all returned tabs and all tiers of the tab totals: nothing is
\* reported as processed without appearing in some tab's tier count.
C29_ProcessedAccounted ==
    ret.op = "processEnrollmentData" =>
        ret.value.summary.processedRecords = SumOfTabTotals(ret.value.tabData)

\* C28: for every list of records the control totals of the client's
\* setSourceData equal those of the server's processEnrollmentData, and both
\* give each record the same tier and the same count.
C28_ClientServerTotalsAgree ==
    (ret.op = "processEnrollmentData" /\ data # <<>>
         /\ Len(enrollment.sourceData) = Len(data)) =>
        /\ enrollment.controlTotals = ret.value.controlTotals
        /\ \A i \in 1..Len(data) :
              /\ enrollment.sourceData[i].tier = normalizeTier(data[i].BEN_CODE)
              /\ enrollment.sourceData[i].count.v = recordUnits(data[i])

\* every request received has been answered, each with success, and no two
\* of them added the same code
AllAddedDistinct ==
    /\ requests # <<>>
    /\ \A k \in 1..Len(requests) :
          requests[k].stage = "done" /\ requests[k].status = 200
    /\ \A j, k \in 1..Len(requests) : requests[j].code = requests[k].code => j = k

\* C23: after any interleaving of POST /config/plan-mappings/add requests
\* for distinct codes that all answer with success, the stored plan-mapping
\* table holds every added mapping and every mapping stored before them.
C23_NoLostMapping ==
    AllAddedDistinct =>
        LET stored == storedConfig["plan_mappings.json"].mappings
        IN  /\ \A k \in 1..Len(requests) :
                  /\ requests[k].code \in DOMAIN stored
                  /\ stored[requests[k].code] = requests[k].type
            /\ \A c \in DOMAIN StoredBefore.mappings :
                  c \in DOMAIN stored /\ stored[c] = StoredBefore.mappings[c]

====
